---- MODULE Spec2Model ----
(***************************************************************************)
(* A model of the seattle_food_truck client library                        *)
(* (src/seattle_food_truck/__init__.py): the paginated fetcher, the        *)
(* memoized location registry, the nearest-location ranking and the        *)
(* date-filtered truck resolution.                                         *)
(***************************************************************************)
EXTENDS Integers, Sequences, FiniteSets, TLC

\* ------------------------------------------------------------------ bounds
MaxPages == 4
MaxPerPage == 2
MaxFetches == 2
MaxUid == 2
MaxDay == 2
MaxN == 1
NumThreads == 2

\* ------------------------------------------------------- program constants
MAX_WORKERS == 25
EARTH_RADIUS == 3959

\* Python's None and a present optional value.
None == <<>>
Some(x) == <<x>>

VARIABLES
    server,      \* the upstream service: its pagination layout
    pc,          \* position of the calling thread: idle / page1 / collect
    call,        \* the public operation in progress (or last finished)
    result,      \* what the last operation returned or raised
    cache,       \* Client.__dict__ entry of the memoized locations property
    fetches,     \* number of paginate calls made on the locations endpoint
    key,         \* paginate: the result key (endpoint)
    params,      \* paginate: the for_locations parameter (None for locations)
    content,     \* paginate: the list being accumulated
    async_jobs,  \* paginate: pages submitted to the futures session, in order
    pending,     \* paginate: submitted pages whose job has not completed
    failed,      \* history: pages of this paginate call whose request failed
    pstatus,     \* paginate: none / running / returned / raised
    threads      \* threads reading client.locations at the same time

vars == <<server, pc, call, result, cache, fetches, key, params, content,
          async_jobs, pending, failed, pstatus, threads>>

pgvars == <<key, params, content, async_jobs, pending, failed, pstatus>>

\* ------------------------------------------------------------ return values
Returns(v) == [kind |-> "return", exc |-> "", value |-> v]
Raises(e) == [kind |-> "raise", exc |-> e, value |-> <<>>]
NoResult == [kind |-> "none", exc |-> "", value |-> <<>>]

\* --------------------------------------------------------- distance function
Mod360(d) == ((d % 360) + 360) % 360

\* 2*cos(d) for d a multiple of 60 degrees (radians() folded into the table).
Cos2(d) ==
    CASE Mod360(d) = 0 -> 2
      [] Mod360(d) = 60 -> 1
      [] Mod360(d) = 120 -> -1
      [] Mod360(d) = 180 -> -2
      [] Mod360(d) = 240 -> -1
      [] Mod360(d) = 300 -> 1

\* 4*sin(d/2)**2 for d a multiple of 60 degrees.
SinHalfSq4(d) ==
    CASE Mod360(d) = 0 -> 0
      [] Mod360(d) = 60 -> 1
      [] Mod360(d) = 120 -> 3
      [] Mod360(d) = 180 -> 4
      [] Mod360(d) = 240 -> 3
      [] Mod360(d) = 300 -> 1

\* 1000 * 2*asin(sqrt(k/16)), rounded, for k = 0..16.
AsinSqrtTable ==
    <<0, 505, 723, 896, 1047, 1186, 1318, 1445, 1571, 1696, 1823, 1955,
      2094, 2246, 2419, 2636, 3142>>

Central1000(a16) == AsinSqrtTable[a16 + 1]

\* haversine_distance(lat_long1, lat_long2): the first component of each pair
\* is unpacked as lon, the second as lat.  Result in whole miles.
haversine_distance(lat_long1, lat_long2) ==
    LET lon1 == lat_long1[1]
        lat1 == lat_long1[2]
        lon2 == lat_long2[1]
        lat2 == lat_long2[2]
        long_dist == lon2 - lon1
        lat_dist == lat2 - lat1
        a16 == 4 * SinHalfSq4(lat_dist)
               + Cos2(lat1) * Cos2(lat2) * SinHalfSq4(long_dist)
    IN (Central1000(a16) * EARTH_RADIUS) \div 1000

\* ------------------------------------------------------------- the service
\* Every page 1..total_pages holds per_page records (an empty collection is
\* one empty page).
Layouts ==
    { [total_pages |-> m, per_page |-> s] :
        m \in 1..MaxPages, s \in 0..MaxPerPage }

ValidLayout(sv) == sv.per_page = 0 => sv.total_pages = 1

PageLen(p) == server.per_page

\* Upstream location k: multiples of 60 degrees, latitude in [-60, 60].
LocationRec(k) ==
    [uid |-> k,
     latitude |-> 60 * ((k % 3) - 1),
     longitude |-> 60 * (((2 * k) % 5) - 2)]

\* A start_time text "<day>T<hour>:00:00<offset>:00" as its fields.
StartTime(uid, k) ==
    [day |-> (k + uid) % (MaxDay + 1),
     hour |-> IF k % 2 = 0 THEN 23 ELSE 1,
     offset |-> IF k % 3 = 0 THEN 9 ELSE IF k % 3 = 1 THEN -8 ELSE 0]

TruckRec(k, j) == [id |-> 10 * k + j, name |-> "truck"]

\* Upstream event k of location uid, with (k % 3) approved bookings.
EventRec(uid, k) ==
    [id |-> k,
     start_time |-> StartTime(uid, k),
     bookings |-> [j \in 1..(k % 3) |-> [truck |-> TruckRec(k, j)]]]

RecordOf(k_, prm, k) ==
    IF k_ = "locations" THEN LocationRec(k) ELSE EventRec(prm[1], k)

\* The records the service holds on page p of the collection.
ServerPage(k_, prm, p) ==
    [i \in 1..PageLen(p) |-> RecordOf(k_, prm, (p - 1) * server.per_page + i)]

\* What one GET may come back with.
Responses ==
    { [error |-> FALSE, status_code |-> 200, body |-> "page"],
      [error |-> TRUE, status_code |-> 0, body |-> ""],
      [error |-> FALSE, status_code |-> 200, body |-> "garbage"],
      [error |-> FALSE, status_code |-> 500, body |-> "error_object"],
      [error |-> FALSE, status_code |-> 500, body |-> "empty_page"] }

RequestFailed(resp) ==
    resp.error \/ resp.status_code # 200 \/ resp.body = "garbage"

\* ---------------------------------------------------------------- paginate
\* s.get(url, params).json().get(key) on one response: the exception raised
\* on the way, or the list found under key.
PageItems(resp, k_, prm, p) ==
    IF resp.error THEN Raises("ConnectionError")
    ELSE IF resp.body = "garbage" THEN Raises("JSONDecodeError")
    ELSE IF resp.body = "error_object" THEN Raises("TypeError")
    ELSE IF resp.body = "empty_page" THEN Returns(<<>>)
    ELSE Returns(ServerPage(k_, prm, p))

\* range(2, func(first_page))
JobPages(total) == [i \in 1..(IF total > 2 THEN total - 2 ELSE 0) |-> i + 1]

SeqToSet(s) == { s[i] : i \in 1..Len(s) }

\* A job runs once one of the ThreadPoolExecutor's workers is free: fewer
\* than MAX_WORKERS unfinished jobs were submitted before it.
CanRun(p) ==
    Cardinality({ q \in pending : q < p }) < MAX_WORKERS

\* -------------------------------------------------------- value constructors
\* Location(mapping) / Truck(mapping): __dict__.update(mapping).
Location(mapping) ==
    [uid |-> mapping.uid,
     latitude |-> mapping.latitude,
     longitude |-> mapping.longitude]

Truck(mapping) == [id |-> mapping.id, name |-> mapping.name]

\* Location.lat_long
lat_long_of(l) == <<l.latitude, l.longitude>>

MapLocation(recs) == [i \in 1..Len(recs) |-> Location(recs[i])]

\* ------------------------------------------------------------ query checks
\* The geocoder's "results" list for an address: empty, or one best match.
GeoResponses == { <<>>, <<[lat |-> 60, lng |-> 0]>> }

\* lat_long_from_address: unpacking an empty results list raises ValueError,
\* which the except clause re-raises as ValueError.
lat_long_from_address(address, geo) ==
    IF Len(geo) = 0 THEN Raises("ValueError")
    ELSE Returns(<<geo[1].lat, geo[1].lng>>)

\* The chain without its first branch: None reaches haversine_distance.
CheckQueryNoGuard(address, lat_long, geo) ==
    IF address # None THEN lat_long_from_address(address[1], geo)
    ELSE IF lat_long # None /\ ~lat_long[1].floats THEN Raises("ValueError")
    ELSE IF lat_long = None THEN Raises("TypeError")
    ELSE Returns(lat_long[1].pair)

\* The if/elif chain that opens every location query.  lat_long, when given,
\* is [pair, floats]: the two numbers and whether both are Python floats.
CheckQuery(address, lat_long, geo) ==
    IF address = None /\ lat_long = None THEN Raises("ValueError")
    ELSE IF address # None THEN lat_long_from_address(address[1], geo)
    ELSE IF lat_long # None /\ ~lat_long[1].floats THEN Raises("ValueError")
    ELSE Returns(lat_long[1].pair)

\* -------------------------------------------------------------- the ranker
\* An insertion that puts x before the elements of equal key.
InsertBeforeEqual(t, x) ==
    LET n == Cardinality({ i \in 1..Len(t) : t[i][1] < x[1] })
    IN SubSeq(t, 1, n) \o <<x>> \o SubSeq(t, n + 1, Len(t))

\* Where sorted() puts x among the already sorted t: after every element
\* whose key is not greater (the sort is stable).
InsertByKey(t, x) ==
    LET n == Cardinality({ i \in 1..Len(t) : t[i][1] <= x[1] })
    IN SubSeq(t, 1, n) \o <<x>> \o SubSeq(t, n + 1, Len(t))

RECURSIVE sorted(_)
\* sorted(pairs, key=lambda _: _[0])
sorted(s) ==
    IF Len(s) = 0 THEN <<>>
    ELSE InsertByKey(sorted(SubSeq(s, 1, Len(s) - 1)), s[Len(s)])

\* zip(distances, self.locations) with distances mapped over l.lat_long
ZipDistances(locs, q) ==
    [i \in 1..Len(locs) |-> <<haversine_distance(lat_long_of(locs[i]), q), locs[i]>>]

\* The body of locations_closest_to after the query checks.
closest(locs, q) == sorted(ZipDistances(locs, q))

\* (distance, location), *_ = closest: unpacking an empty list raises
\* ValueError.
nearest(locs, q) ==
    IF Len(closest(locs, q)) = 0 THEN Raises("ValueError")
    ELSE Returns(closest(locs, q)[1][2])

\* ------------------------------------------------------------ the resolver
\* dateutil's parse of a start_time text: an aware datetime.
date_parse(text) ==
    [ordinal |-> text.day, hour |-> text.hour, tzoffset |-> text.offset]

\* The calendar date after conversion to UTC.
DateOfUTC(dt) == dt.ordinal + ((dt.hour - dt.tzoffset) \div 24)

\* datetime.date(): the calendar date of the wall-clock fields.
DateOf(dt) == dt.ordinal

TrucksOfEvent(event) ==
    [j \in 1..Len(event.bookings) |-> Truck(event.bookings[j].truck)]

RECURSIVE trucks_on_day(_, _)
\* The loop of Location.trucks_on_day over the fetched events.
trucks_on_day(events, date) ==
    IF Len(events) = 0 THEN <<>>
    ELSE trucks_on_day(SubSeq(events, 1, Len(events) - 1), date)
         \o (IF date = DateOf(date_parse(events[Len(events)].start_time))
             THEN TrucksOfEvent(events[Len(events)])
             ELSE <<>>)

\* The date each wrapper hands to trucks_on_day.
TodayDate(today) == today
TomorrowDate(today) == today + 1
YesterdayAsTomorrow(today) == today + 1
YesterdayDate(today) == today - 1
NDaysDate(today, n) == today + n

\* ------------------------------------------------------------------- inputs
\* lat_long arguments: in-range positions, a latitude and a longitude out of
\* range, and a pair of ints.
QueryLatLongs ==
    { [pair |-> <<0, 0>>, floats |-> TRUE],
      [pair |-> <<60, -60>>, floats |-> TRUE],
      [pair |-> <<120, 0>>, floats |-> TRUE],
      [pair |-> <<0, 240>>, floats |-> TRUE],
      [pair |-> <<0, 0>>, floats |-> FALSE] }

InRange(pair) ==
    /\ -90 <= pair[1] /\ pair[1] <= 90
    /\ -180 <= pair[2] /\ pair[2] <= 180

\* Query arguments (address, lat_long), at most one of them given, with the
\* geocoder's answer when the address is looked up.
QueryArgs ==
    { <<None, None, <<>> >> }
    \cup { <<Some("address"), None, geo>> : geo \in GeoResponses }
    \cup { <<None, Some(q), <<>> >> : q \in QueryLatLongs }

\* The Location objects the Location methods are called on.
Targets == { Location(LocationRec(k)) : k \in 1..MaxUid }

Days == 0..MaxDay

Threads == 1..NumThreads

NoCall ==
    [op |-> "none", self |-> None, address |-> None, lat_long |-> None,
     query |-> None, date |-> None, n |-> None, today |-> None]

\* --------------------------------------------------------------------- Init
Init ==
    /\ server \in { sv \in Layouts : ValidLayout(sv) }
    /\ pc = "idle"
    /\ call = NoCall
    /\ result = NoResult
    /\ cache = None
    /\ fetches = 0
    /\ key = ""
    /\ params = None
    /\ content = <<>>
    /\ async_jobs = <<>>
    /\ pending = {}
    /\ failed = {}
    /\ pstatus = "none"
    /\ threads = [t \in Threads |-> [pc |-> "start", seen |-> None]]

\* No paginate frame is live.
NoPaginate ==
    /\ key' = ""
    /\ params' = None
    /\ content' = <<>>
    /\ async_jobs' = <<>>
    /\ pending' = {}
    /\ failed' = {}
    /\ pstatus' = "none"

\* A paginate that goes on with the list of the call before it.
EnterPaginateStale(k_, prm) ==
    /\ key' = k_
    /\ params' = prm
    /\ UNCHANGED content
    /\ async_jobs' = <<>>
    /\ pending' = {}
    /\ failed' = {}
    /\ pstatus' = "running"
    /\ pc' = "page1"
    /\ result' = NoResult

\* Entry of paginate(url, key, params): content = [], page 1 is requested.
EnterPaginate(k_, prm) ==
    /\ key' = k_
    /\ params' = prm
    /\ content' = <<>>
    /\ async_jobs' = <<>>
    /\ pending' = {}
    /\ failed' = {}
    /\ pstatus' = "running"
    /\ pc' = "page1"
    /\ result' = NoResult

\* An operation that ends in the step that began it.
Immediate(r) ==
    /\ result' = r
    /\ pc' = "idle"
    /\ NoPaginate
    /\ UNCHANGED <<cache, fetches>>

\* self.locations: the memoized value, or the first fetch.
AccessLocations ==
    IF cache # None
    THEN FALSE
    ELSE /\ fetches < MaxFetches
         /\ fetches' = fetches + 1
         /\ EnterPaginate("locations", None)
         /\ UNCHANGED cache

\* ------------------------------------------------------- Client operations
\* client.locations
ClientLocations ==
    /\ pc = "idle"
    /\ call' = [NoCall EXCEPT !.op = "locations"]
    /\ IF cache # None THEN Immediate(Returns(cache[1])) ELSE AccessLocations
    /\ UNCHANGED <<server, threads>>

\* The part locations_closest_to and nearest_location_to share: the query
\* checks, then self.locations.
QueryOp(op, address, ll, geo) ==
    LET q == CheckQuery(address, ll, geo)
    IN /\ call' = [NoCall EXCEPT !.op = op, !.address = address,
                                 !.lat_long = ll,
                                 !.query = IF q.kind = "return"
                                           THEN Some(q.value) ELSE None]
       /\ IF q.kind = "raise" THEN Immediate(q)
          ELSE IF cache # None
          THEN Immediate(IF op = "nearest_location_to"
                         THEN nearest(cache[1], q.value)
                         ELSE Returns(closest(cache[1], q.value)))
          ELSE AccessLocations
       /\ UNCHANGED <<server, threads>>

LocationsClosestTo ==
    /\ pc = "idle"
    /\ \E a \in QueryArgs :
        QueryOp("locations_closest_to", a[1], a[2], a[3])

NearestLocationTo ==
    /\ pc = "idle"
    /\ \E a \in QueryArgs :
        QueryOp("nearest_location_to", a[1], a[2], a[3])

\* ------------------------------------------------------ Location operations
\* location.distance_from(address, lat_long)
DistanceFrom ==
    \E self \in Targets, a \in QueryArgs :
        LET q == CheckQuery(a[1], a[2], a[3])
        IN /\ pc = "idle"
           /\ call' = [NoCall EXCEPT !.op = "distance_from",
                                     !.self = Some(self),
                                     !.address = a[1], !.lat_long = a[2],
                                     !.query = IF q.kind = "return"
                                               THEN Some(q.value) ELSE None]
           /\ Immediate(IF q.kind = "raise" THEN q
                        ELSE Returns(haversine_distance(lat_long_of(self),
                                                        q.value)))
           /\ UNCHANGED <<server, threads>>

\* Client.events_at_location(location): paginate over the events endpoint
\* with for_locations = location.uid.
EventsOp(op, self, today, n, date) ==
    /\ call' = [NoCall EXCEPT !.op = op, !.self = Some(self),
                              !.today = today, !.n = n, !.date = date]
    /\ EnterPaginate("events", Some(self.uid))
    /\ UNCHANGED <<server, cache, fetches, threads>>

EventsAtLocation ==
    /\ pc = "idle"
    /\ \E self \in Targets :
        EventsOp("events_at_location", self, None, None, None)

TrucksOnDay ==
    /\ pc = "idle"
    /\ \E self \in Targets, date \in Days :
        EventsOp("trucks_on_day", self, None, None, Some(date))

\* The wrappers read the process clock (today) as they are called.
TrucksToday ==
    /\ pc = "idle"
    /\ \E self \in Targets, today \in Days :
        EventsOp("trucks_today", self, Some(today), None,
                 Some(TodayDate(today)))

TrucksTomorrow ==
    /\ pc = "idle"
    /\ \E self \in Targets, today \in Days :
        EventsOp("trucks_tomorrow", self, Some(today), None,
                 Some(TomorrowDate(today)))

TrucksYesterday ==
    /\ pc = "idle"
    /\ \E self \in Targets, today \in Days :
        EventsOp("trucks_yesterday", self, Some(today), None,
                 Some(YesterdayDate(today)))

TrucksNDaysFromNow ==
    /\ pc = "idle"
    /\ \E self \in Targets, today \in Days, n \in (-MaxN)..MaxN :
        EventsOp("trucks_n_days_from_now", self, Some(today), Some(n),
                 Some(NDaysDate(today, n)))

\* ------------------------------------------------------- paginate's steps
\* A property that stores an empty snapshot when its function raises.
CacheEmptyOnRaise(c) == Some(<<>>)

\* lazyproperty.__get__ when self.func(obj) raises: the assignment to the
\* instance's __dict__ is never reached.
CacheAfterRaise(c) == c

\* An exception in paginate leaves through every caller: none catches it.
Unwind(e) ==
    /\ result' = e
    /\ pstatus' = "raised"
    /\ pc' = "idle"
    /\ cache' = CacheAfterRaise(cache)
    /\ UNCHANGED <<fetches, call, server, key, params, threads>>

\* The first request, its json(), content.extend(first_page.get(key)), then
\* the submission of the jobs for range(2, total_pages).
FirstPage ==
    /\ pc = "page1"
    /\ \E resp \in Responses :
        LET items == PageItems(resp, key, params, 1)
        IN /\ failed' = IF RequestFailed(resp) THEN {1} ELSE {}
           /\ IF items.kind = "raise"
              THEN /\ Unwind(items)
                   /\ UNCHANGED <<content, async_jobs, pending>>
              ELSE /\ content' = content \o items.value
                   /\ async_jobs' = JobPages(server.total_pages)
                   /\ pending' = SeqToSet(JobPages(server.total_pages))
                   /\ pc' = "collect"
                   /\ UNCHANGED <<result, pstatus, cache, fetches, call,
                                  server, key, params, threads>>

\* One job of as_completed(async_jobs): content.extend of its page.
JobCompleted ==
    /\ pc = "collect"
    /\ \E p \in pending, resp \in Responses :
        LET items == PageItems(resp, key, params, p)
        IN /\ CanRun(p)
           /\ pending' = pending \ {p}
           /\ failed' = IF RequestFailed(resp) THEN failed \cup {p} ELSE failed
           /\ UNCHANGED async_jobs
           /\ IF items.kind = "raise"
              THEN Unwind(items) /\ UNCHANGED content
              ELSE /\ content' = content \o items.value
                   /\ UNCHANGED <<result, pstatus, pc, cache, fetches, call,
                                  server, key, params, threads>>

\* What the caller makes of paginate's list.
Finish(c, list) ==
    CASE c.op = "locations" -> Returns(MapLocation(list))
      [] c.op = "locations_closest_to" ->
            Returns(closest(MapLocation(list), c.query[1]))
      [] c.op = "nearest_location_to" -> nearest(MapLocation(list), c.query[1])
      [] c.op = "events_at_location" -> Returns(list)
      [] OTHER -> Returns(trucks_on_day(list, c.date[1]))

\* A property that computes its value and stores nothing.
StoreNothing(list) == None

\* lazyproperty.__get__: the value computed by the property is stored in the
\* instance's __dict__ before it is used.
StoreLocations(list) == Some(MapLocation(list))

\* return content, and the rest of the caller.
PaginateReturn ==
    /\ pc = "collect"
    /\ pending = {}
    /\ pstatus' = "returned"
    /\ pc' = "idle"
    /\ cache' = IF key = "locations" THEN StoreLocations(content) ELSE cache
    /\ result' = Finish(call, content)
    /\ UNCHANGED <<server, call, fetches, key, params, content, async_jobs,
                   pending, failed, threads>>

PaginateSteps == FirstPage \/ JobCompleted \/ PaginateReturn

\* Location queries: the registry, the ranking and the distance.
Next ==
    \/ ClientLocations
    \/ LocationsClosestTo
    \/ NearestLocationTo
    \/ DistanceFrom
    \/ PaginateSteps

\* Event queries: the events of a location and the trucks on a date.
NextTrucks ==
    \/ EventsAtLocation
    \/ TrucksOnDay
    \/ TrucksToday
    \/ TrucksTomorrow
    \/ TrucksYesterday
    \/ TrucksNDaysFromNow
    \/ PaginateSteps

Spec == Init /\ [][Next]_vars

SpecTrucks == Init /\ [][NextTrucks]_vars

\* ------------------------------------------------- requests with no answer
\* The timeout of s.get(url, params=...): none is passed, and the default
\* of requests is to wait without limit.
RequestTimeout == None

\* The service accepts a request and never answers it.  With no timeout the
\* wait (s.get for page 1, job.result() under as_completed for the others)
\* has no end, and paginate neither returns nor raises.
RequestHangs ==
    /\ pc \in {"page1", "collect"}
    /\ pc = "collect" => \E p \in pending : CanRun(p)
    /\ RequestTimeout = None
    /\ pc' = "blocked"
    /\ UNCHANGED <<server, call, result, cache, fetches, pgvars, threads>>

\* Registry and event queries against a service that may stay silent.
NextHang ==
    \/ ClientLocations
    \/ EventsAtLocation
    \/ PaginateSteps
    \/ RequestHangs

SpecHang == Init /\ [][NextHang]_vars

\* ------------------------------------------- concurrent access to locations
\* The orders in which the jobs of the pages in S may complete.
CompletionOrders(S) ==
    { o \in [1..Cardinality(S) -> S] :
        \A i \in 1..Cardinality(S), j \in 1..Cardinality(S) :
            i # j => o[i] # o[j] }

RECURSIVE Collect(_, _, _, _, _)
\* content.extend over the pages in order, up to the first exception.
Collect(k_, prm, order, resp, acc) ==
    IF Len(order) = 0 THEN Returns(acc)
    ELSE LET items == PageItems(resp[order[1]], k_, prm, order[1])
         IN IF items.kind = "raise" THEN items
            ELSE Collect(k_, prm, SubSeq(order, 2, Len(order)), resp,
                         acc \o items.value)

\* One whole call of paginate: page 1, then the jobs as they complete.
RunPaginate(k_, prm, order, resp) ==
    Collect(k_, prm, <<1>> \o order, resp, <<>>)

\* A thread evaluates client.locations: the stored value when the instance
\* holds one, else it calls the property function.  No lock is taken.
ThreadGet(t) ==
    /\ threads[t].pc = "start"
    /\ IF cache # None
       THEN /\ threads' = [threads EXCEPT ![t] = [pc |-> "done", seen |-> cache]]
            /\ UNCHANGED fetches
       ELSE /\ threads' = [threads EXCEPT ![t].pc = "fetching"]
            /\ fetches' = fetches + 1
    /\ UNCHANGED <<server, pc, call, result, cache, pgvars>>

\* The thread's paginate call ends: an exception leaves the instance as it
\* is, a list is stored in the instance and returned.
ThreadFetched(t) ==
    /\ threads[t].pc = "fetching"
    /\ \E order \in CompletionOrders(SeqToSet(JobPages(server.total_pages))),
          resp \in [1..server.total_pages -> Responses] :
        LET r == RunPaginate("locations", None, order, resp)
        IN IF r.kind = "raise"
           THEN /\ threads' = [threads EXCEPT ![t].pc = "raised"]
                /\ UNCHANGED cache
           ELSE /\ cache' = StoreLocations(r.value)
                /\ threads' = [threads EXCEPT
                                  ![t] = [pc |-> "done",
                                          seen |-> StoreLocations(r.value)]]
    /\ UNCHANGED <<server, pc, call, result, fetches, pgvars>>

NextThreads ==
    \/ \E t \in Threads : ThreadGet(t)
    \/ \E t \in Threads : ThreadFetched(t)

SpecThreads == Init /\ [][NextThreads]_vars

\* =================================================================== claims
\* An operation of ops has run to its end.
Finished(ops) == pc = "idle" /\ call.op \in ops

\* paginate has returned its list and every request it made succeeded.
ReturnedClean == pstatus = "returned" /\ failed = {}

RecId(k_, rec) == IF k_ = "locations" THEN rec.uid ELSE rec.id

\* The page whose records include record number k.
PageOfRecord(k) == ((k - 1) \div server.per_page) + 1

RECURSIVE TotalRecords(_)
TotalRecords(p) == IF p = 0 THEN 0 ELSE TotalRecords(p - 1) + PageLen(p)

\* C1: when page 1 reports total_pages = M >= 1, the list paginate returns
\* holds every record of every page 1..M exactly once, and its length is the
\* sum of the per-page record counts.
C1_AllPagesReturned ==
    ReturnedClean =>
        /\ Len(content) = TotalRecords(server.total_pages)
        /\ \A p \in 1..server.total_pages : \A i \in 1..PageLen(p) :
              Cardinality({ t \in 1..Len(content) :
                              content[t] = ServerPage(key, params, p)[i] }) = 1

\* C2: whatever the completion order of the page requests, the returned list
\* has the records in page order.
C2_PageOrder ==
    ReturnedClean =>
        \A s \in 1..Len(content), t \in 1..Len(content) :
            s < t => PageOfRecord(RecId(key, content[s]))
                       <= PageOfRecord(RecId(key, content[t]))

\* C3: there is no partial success: when the request of a page failed
\* (network error, non-2xx status, malformed body) paginate raises, it never
\* returns a list that is missing that page's records.
C3_NoPartialSuccess ==
    pstatus = "returned" =>
        \A p \in failed : \A i \in 1..PageLen(p) :
            \E t \in 1..Len(content) :
                content[t] = ServerPage(key, params, p)[i]

QueryOps == {"locations_closest_to", "nearest_location_to", "distance_from"}

RegistryOps == {"locations", "locations_closest_to", "nearest_location_to"}

\* C4 as stated: over any sequence of accesses to Client.locations the
\* locations endpoint is fetched by at most one paginate call.
C4_AtMostOneFetch == fetches <= 1

\* C4: the access whose fetch returns stores the snapshot; from then on the
\* snapshot never changes, no access issues a request, and client.locations
\* returns the stored snapshot.
C4_FetchedOnceThenCached ==
    [][ /\ (pstatus = "running" /\ pstatus' = "returned" /\ key = "locations")
           => cache' = Some(MapLocation(content))
        /\ cache # None =>
              /\ cache' = cache
              /\ fetches' = fetches
              /\ pc' = "idle"
              /\ pstatus' = "none"
              /\ call'.op = "locations" =>
                    (result'.kind = "return" /\ result'.value = cache[1])
      ]_vars

\* A second access was served from the stored snapshot.
C4_Witness ==
    /\ Finished({"locations"})
    /\ cache # None
    /\ Len(cache[1]) >= 2
    /\ pstatus = "none"
    /\ result.kind = "return"

\* The place of the location with this uid in the registry snapshot.
RegistryIndex(uid) == CHOOSE i \in 1..Len(cache[1]) : cache[1][i].uid = uid

\* C5: locations_closest_to returns one (distance, Location) pair per
\* registry entry, in non-decreasing distance, entries of equal distance in
\* registry order.
C5_RankedStable ==
    (Finished({"locations_closest_to"}) /\ result.kind = "return") =>
        LET r == result.value
            reg == cache[1]
        IN /\ Len(r) = Len(reg)
           /\ \A i \in 1..Len(reg) :
                 Cardinality({ t \in 1..Len(r) : r[t][2] = reg[i] }) = 1
           /\ \A t \in 1..Len(r) :
                 r[t][1] = haversine_distance(lat_long_of(r[t][2]),
                                              call.query[1])
           /\ \A t \in 1..Len(r) : r[1][1] <= r[t][1]
           /\ \A t \in 1..Len(r), u \in 1..Len(r) :
                 t < u =>
                    /\ r[t][1] <= r[u][1]
                    /\ r[t][1] = r[u][1] =>
                          RegistryIndex(r[t][2].uid) < RegistryIndex(r[u][2].uid)

\* A ranking that moved entries and kept a tie in registry order.
C5_Witness ==
    /\ Finished({"locations_closest_to"})
    /\ result.kind = "return"
    /\ Len(result.value) >= 3
    /\ \E t \in 1..(Len(result.value) - 1) :
          result.value[t][1] = result.value[t + 1][1]
    /\ \E t \in 1..Len(result.value) : result.value[t][2] # cache[1][t]

\* The exception classes of InvalidQuery and AddressNotFound.
InvalidQueryExc == CheckQuery(None, None, <<>>).exc
AddressNotFoundExc == CheckQuery(Some("address"), None, <<>>).exc

\* C6: nearest_location_to with a valid query on an empty registry fails
\* with a condition the caller can tell from InvalidQuery and from
\* AddressNotFound, and returns no Location.
C6_EmptyRegistryDistinct ==
    (Finished({"nearest_location_to"}) /\ call.query # None
        /\ cache = Some(<<>>)) =>
        /\ result.kind = "raise"
        /\ result.exc \notin {InvalidQueryExc, AddressNotFoundExc}

\* C7: a location query with both address and lat_long omitted raises
\* ValueError and returns nothing.
C7_InvalidQueryRaises ==
    (Finished(QueryOps) /\ call.address = None /\ call.lat_long = None) =>
        /\ result.kind = "raise"
        /\ result.exc = "ValueError"
        /\ pstatus = "none"

C7_Witness ==
    /\ Finished({"nearest_location_to"})
    /\ call.address = None
    /\ call.lat_long = None
    /\ result.kind = "raise"
    /\ cache # None

\* C8: a location query given a lat_long whose latitude is outside [-90, 90]
\* or whose longitude is outside [-180, 180] raises ValueError.
C8_OutOfRangeRaises ==
    (Finished(QueryOps) /\ call.address = None /\ call.lat_long # None) =>
        (~InRange(call.lat_long[1].pair) =>
            (result.kind = "raise" /\ result.exc = "ValueError"))

TruckOps ==
    {"trucks_on_day", "trucks_today", "trucks_tomorrow", "trucks_yesterday",
     "trucks_n_days_from_now"}

\* The date written in a start_time text, in the text's own offset.
WrittenDate(event) == event.start_time.day

RECURSIVE TrucksThrough(_, _, _)
\* The number of bookings of the events 1..i that fall on date.
TrucksThrough(ev, date, i) ==
    IF i = 0 THEN 0
    ELSE TrucksThrough(ev, date, i - 1)
         + (IF WrittenDate(ev[i]) = date THEN Len(ev[i].bookings) ELSE 0)

\* C9: trucks_on_day returns exactly one Truck per booking of each fetched
\* event whose start_time date (in the timestamp's own offset) is the
\* requested date, in event order then booking order, and nothing else.
C9_TrucksOnDay ==
    (Finished(TruckOps) /\ result.kind = "return") =>
        LET ev == content
            date == call.date[1]
            r == result.value
        IN /\ Len(r) = TrucksThrough(ev, date, Len(ev))
           /\ \A i \in 1..Len(ev) :
                 WrittenDate(ev[i]) = date =>
                    \A j \in 1..Len(ev[i].bookings) :
                       r[TrucksThrough(ev, date, i - 1) + j]
                          = [id |-> ev[i].bookings[j].truck.id,
                             name |-> ev[i].bookings[j].truck.name]

\* Events on the date and off it, one of them on another date in UTC.
C9_Witness ==
    /\ Finished({"trucks_on_day"})
    /\ result.kind = "return"
    /\ Len(result.value) >= 2
    /\ \E i \in 1..Len(content) :
          /\ WrittenDate(content[i]) # call.date[1]
          /\ Len(content[i].bookings) >= 1
    /\ \E i \in 1..Len(content) :
          /\ WrittenDate(content[i]) = call.date[1]
          /\ Len(content[i].bookings) >= 1
          /\ DateOfUTC(date_parse(content[i].start_time)) # call.date[1]

WrapperOps ==
    {"trucks_today", "trucks_tomorrow", "trucks_yesterday",
     "trucks_n_days_from_now"}

WrapperOffset(c) ==
    CASE c.op = "trucks_today" -> 0
      [] c.op = "trucks_tomorrow" -> 1
      [] c.op = "trucks_yesterday" -> -1
      [] c.op = "trucks_n_days_from_now" -> c.n[1]

\* C10: with the clock at D, trucks_today asks trucks_on_day for D,
\* trucks_tomorrow for D+1, trucks_yesterday for D-1 and
\* trucks_n_days_from_now(n) for D+n, and returns what trucks_on_day returns.
C10_WrapperOffsets ==
    call.op \in WrapperOps =>
        /\ call.date = Some(call.today[1] + WrapperOffset(call))
        /\ (pc = "idle" /\ pstatus = "returned") =>
              /\ result.kind = "return"
              /\ result.value
                    = trucks_on_day(content,
                                    call.today[1] + WrapperOffset(call))
        /\ (pc = "idle" /\ pstatus = "raised") => result.kind = "raise"

C10_Witness ==
    /\ Finished({"trucks_yesterday"})
    /\ result.kind = "return"
    /\ Len(result.value) >= 1
    /\ call.date = Some(call.today[1] - 1)

\* C11: when several threads access client.locations for the first time at
\* once, only one locations fetch is performed and every thread observes the
\* same snapshot.
C11_OneFetchOneSnapshot ==
    /\ fetches <= 1
    /\ \A t \in Threads, u \in Threads :
          (threads[t].pc = "done" /\ threads[u].pc = "done")
             => threads[t].seen = threads[u].seen

\* The haversine distance with the first component of each pair taken as the
\* latitude and the second as the longitude, in whole miles.
HaversineLatFirst(lat_long1, lat_long2) ==
    LET lat1 == lat_long1[1]
        lon1 == lat_long1[2]
        lat2 == lat_long2[1]
        lon2 == lat_long2[2]
        a16 == 4 * SinHalfSq4(lat2 - lat1)
               + Cos2(lat1) * Cos2(lat2) * SinHalfSq4(lon2 - lon1)
    IN (Central1000(a16) * EARTH_RADIUS) \div 1000

\* C14: the distance between a location and a (latitude, longitude) query is
\* the haversine distance that reads the first component of each pair as the
\* latitude and the second as the longitude.
C14_LatitudeFirst ==
    (Finished({"distance_from"}) /\ result.kind = "return"
        /\ InRange(call.query[1])) =>
        result.value = HaversineLatFirst(lat_long_of(call.self[1]),
                                         call.query[1])

\* C15: a locations fetch that raises stores nothing, and the registry
\* operation that follows it fetches again (or raises on its own query): it
\* never returns a value computed from a partial or empty snapshot.
C15_FailedFetchStoresNothing ==
    [][ /\ (pstatus = "running" /\ key = "locations" /\ pstatus' = "raised")
            => (cache = None /\ cache' = None)
        /\ (pc = "idle" /\ pstatus = "raised" /\ key = "locations"
               /\ call'.op \in RegistryOps)
            => /\ result'.kind # "return"
               /\ pc' # "idle" => /\ fetches' = fetches + 1
                                  /\ pstatus' = "running"
                                  /\ key' = "locations" ]_vars

\* A second fetch, made after the first one raised, has filled the cache.
C15_Witness ==
    /\ fetches = 2
    /\ pstatus = "returned"
    /\ key = "locations"
    /\ cache # None
    /\ Len(cache[1]) >= 1

EventOps == TruckOps \cup {"events_at_location"}

\* The events in hand are records of the current call's location, each at
\* most once.
OwnEvents(ev, prm) ==
    /\ \A i \in 1..Len(ev) : ev[i] = EventRec(prm[1], ev[i].id)
    /\ \A i \in 1..Len(ev), j \in 1..Len(ev) : i # j => ev[i].id # ev[j].id

\* C13: events are never cached.  Every call of trucks_on_day, of a date
\* wrapper or of events_at_location starts a new paginated fetch of the
\* events of its location from an empty list, so k calls make k fetches; the
\* list a call works on holds only events of its own fetch, and its result
\* is computed from that list.
C13_EventsFetchedEachCall ==
    [][ /\ pc = "idle" =>
             /\ call'.op \in EventOps
             /\ pc' = "page1"
             /\ pstatus' = "running"
             /\ key' = "events"
             /\ params' = Some(call'.self[1].uid)
             /\ content' = <<>>
             /\ result' = NoResult
        /\ pstatus' \in {"running", "returned"} => OwnEvents(content', params')
        /\ (pstatus' = "returned" /\ call'.op \in TruckOps) =>
             result' = Returns(trucks_on_day(content', call'.date[1]))
        /\ (pstatus' = "returned" /\ call'.op = "events_at_location") =>
             result' = Returns(content') ]_vars

\* A date query has returned trucks taken from the events of its own fetch,
\* which spans more than one page.
C13_Witness ==
    /\ Finished(TruckOps)
    /\ pstatus = "returned"
    /\ result.kind = "return"
    /\ Len(result.value) >= 1
    /\ Len(content) > server.per_page

\* C12: no paginate call blocks indefinitely.  Every page request carries a
\* timeout, so no call is ever left waiting on a request that will neither
\* complete nor fail.
C12_NeverBlocked == pc # "blocked"

====
